---- MODULE Spec2Model ----
(***************************************************************************)
(* LingoPop (src/App.tsx): the notebook store, the single save path and    *)
(* the batch import path of the main component, as a state machine.        *)
(* One action per event handler or promise continuation.  An async handler *)
(* is split at its await: the part before it is one action, and each       *)
(* lookup settling is one action, which runs the continuation after        *)
(* Promise.all as well when it settles the last lookup of its batch.       *)
(* Values a handler closes over (savedItems, language) are captured in the *)
(* record of the in-flight task, as the closure captures them.             *)
(***************************************************************************)
EXTENDS Integers, Sequences, FiniteSets, TLC

\* ---------------------------------------------------------------- bounds
MaxDate == 2         \* readings of the clock: entries built in one session
MaxInFlight == 1     \* single lookups and batch imports in flight
MaxOverlap == 2      \* the same, where requests overlap

\* ------------------------------------------------------ program constants
ConcurrencyCap == 10

InitialTags == <<"General", "Travel", "Work", "Food", "Love">>

DefaultImportTag == "Imported"

\* ------------------------------------------------------- modelled inputs
Languages == {"en"}

TypedTexts == {"hello"}

ImportLists == {<<"Hello">>}

BatchLists == {<<"cat", "cat", "dog">>, <<"Cat">>}

LongList == <<"w01", "w02", "w03", "w04", "w05", "w06", "w07", "w08", "w09", "w10", "w11">>

TagChoices == {<<>>, <<"Work">>}

\* texts typed into the search box, the empty and the blank one included
LookupTexts == {"", " ", "helo", "hello"}

\* texts typed into the search box to fill the notebook
StoreTexts == {"helo", "hello"}

\* texts typed into the import dialog, one character per element
InputTexts == {<<"a", ",", " ", "\n", "b">>, <<",">>, <<" ">>}

\* texts typed into the new tag box of the tag dialog
NewTagInputs == {"All", " "}

\* words handleRemoveItem is applied to
StoreWords == {"hello", "Hello"}

\* what the collaborator may return for the scan of an image: a JSON array
\* of the words it read, or a value that is no array
OcrResults == {[array |-> TRUE, words |-> <<"a", " ">>], [array |-> FALSE]}

\* the data URL the FileReader hands over, and no image
Images == {"data:image/png;base64"}

NoImage == "null"

\* the ImportModal component while it is not rendered
Unmounted == [mounted |-> FALSE]

\* the useState initial values of the image tab of ImportModal; scans counts
\* the reader.onload calls suspended at their await
FreshModal ==
  [mounted |-> TRUE, selectedImage |-> NoImage, scanning |-> FALSE,
   scannedWords |-> <<>>, selectedScannedWords |-> <<>>, scans |-> 0]

NoLanguage == "none"

NoResult == [null |-> TRUE]

NoItem == [none |-> TRUE]

NoOp == [op |-> "none"]

\* ------------------------------------------------------------ pure helpers
\* String.prototype.toLowerCase on the modelled alphabet
ToLower(w) ==
  CASE w = "Hello" -> "hello"
    [] w = "Cat" -> "cat"
    [] OTHER -> w

\* the whole list, with no cap
SliceAll(s, n) == s

\* Array.prototype.slice(0, n)
Slice(s, n) == SubSeq(s, 1, IF Len(s) < n THEN Len(s) ELSE n)

\* String.prototype.trim on the modelled alphabet
Trim(t) == IF t = " " THEN "" ELSE t

\* String.prototype.trim on a text given character by character
RECURSIVE TrimChars(_)
TrimChars(cs) ==
  IF cs = <<>> THEN cs
  ELSE IF Head(cs) = " " THEN TrimChars(Tail(cs))
  ELSE IF cs[Len(cs)] = " " THEN TrimChars(SubSeq(cs, 1, Len(cs) - 1))
  ELSE cs

\* the string of a text given character by character
RECURSIVE Join(_)
Join(cs) == IF cs = <<>> THEN "" ELSE Head(cs) \o Join(Tail(cs))

\* the character class [\n,]
IsSeparator(c) == c \in {",", "\n"}

\* String.prototype.split(/[\n,]+/)
RECURSIVE SplitChars(_)
SplitChars(cs) ==
  IF \A i \in 1..Len(cs) : ~IsSeparator(cs[i]) THEN <<cs>>
  ELSE LET i == CHOOSE k \in 1..Len(cs) :
                  /\ IsSeparator(cs[k])
                  /\ \A m \in 1..(k - 1) : ~IsSeparator(cs[m])
           rest == {k \in (i + 1)..Len(cs) : ~IsSeparator(cs[k])}
           j == IF rest = {} THEN Len(cs) + 1
                ELSE CHOOSE k \in rest : \A m \in rest : k <= m
       IN <<SubSeq(cs, 1, i - 1)>> \o SplitChars(SubSeq(cs, j, Len(cs)))

\* inputText.split(/[\n,]+/).map(w => w.trim()).filter(w => w)
TextWords(inputText) ==
  LET pieces == SplitChars(inputText)
      trimmed == [i \in 1..Len(pieces) |-> Join(TrimChars(pieces[i]))]
  IN SelectSeq(trimmed, LAMBDA w : w # "")

\* s with its i-th element removed
RemoveAt(s, i) == SubSeq(s, 1, i - 1) \o SubSeq(s, i + 1, Len(s))

\* savedItems.find(i => i.word === w): index of the first exact match, 0 if none
FindExact(items, w) ==
  IF \E i \in 1..Len(items) : items[i].word = w
  THEN CHOOSE i \in 1..Len(items) :
         /\ items[i].word = w
         /\ \A j \in 1..(i - 1) : items[j].word # w
  ELSE 0

\* a removal that removes nothing
KeepAll(items, word) == items

\* a removal that empties the notebook
ClearItems(items, word) == <<>>

\* savedItems.filter(i => i.word !== word)
RemoveWord(items, word) == SelectSeq(items, LAMBDA i : i.word # word)

\* availableTags.includes(tag), item.tags.includes(tag)
Includes(tags, tag) == \E i \in 1..Len(tags) : tags[i] = tag

\* Notebook.filteredItems for the selected filter
FilteredItems(items, filter) ==
  IF filter = "All" THEN items
  ELSE SelectSeq(items, LAMBDA item : Includes(item.tags, filter))

\* Notebook.getCount(tag)
GetCount(items, tag) ==
  IF tag = "All" THEN Len(items)
  ELSE Len(SelectSeq(items, LAMBDA item : Includes(item.tags, tag)))

\* the new label put in front of the catalog
WithNewTagFirst(tags, newTag) == <<newTag>> \o tags

\* [...allTags, newTag]
WithNewTag(tags, newTag) == Append(tags, newTag)

\* savedItems.find(s => s.word.toLowerCase() === w.toLowerCase()) is defined
HasWordCI(items, w) ==
  \E i \in 1..Len(items) : ToLower(items[i].word) = ToLower(w)

\* the spellings the collaborator may report as the correction of a query
Corrections(text) == IF text = "helo" THEN {"hello"} ELSE {}

\* the DictionaryData documents the collaborator may return for a query:
\* typoDetected false and correctedQuery the query itself, or typoDetected
\* true and correctedQuery the corrected spelling (getDictionaryPrompt)
ApiResponses(text) ==
  {[typoDetected |-> FALSE, correctedQuery |-> text, payload |-> <<"api", text>>]}
  \cup {[typoDetected |-> TRUE, correctedQuery |-> c, payload |-> <<"api", c>>] :
          c \in Corrections(text)}

\* the words the collaborator may list as synonyms and antonyms of a word
Synonyms(word) ==
  CASE word = "hello" -> {"hi", ""}
    [] word = "hi" -> {"hello"}
    [] OTHER -> {}

\* the buttons of the synonyms and antonyms sections of the ResultCard
RelatedWords(data) ==
  IF data.payload[1] = "api" THEN Synonyms(data.payload[2])
  ELSE {"Chance", "Destiny", "Misfortune"}

\* a lookup whose failure nothing replaces by a placeholder
NoFallbackData(text, isZh) == [null |-> TRUE]

\* getFallbackData(query, isZh)
FallbackData(text, isZh) ==
  [typoDetected |-> FALSE, correctedQuery |-> text,
   payload |-> <<"offline", IF isZh THEN "zh-CN" ELSE "en-US">>]

\* ------------------------------------------------------------------ state
VARIABLES
  apiKey,               \* process.env.API_KEY is set
  language,             \* useState<Language | null>
  query,
  result,
  loading,
  savedItems,
  allTags,
  showTagModal,
  currentEditingItem,
  pendingImportWords,
  showImportModal,
  showNotebook,
  singles,              \* performSearch calls suspended at their await
  batches,              \* handleSaveTags calls suspended at Promise.all
  clock,                \* readings of new Date() so far; each is later than the last
  lastOp,               \* history: the last operation that wrote the store
  importModal           \* the state of ImportModal while it is mounted

vars == <<importModal, apiKey, language, query, result, loading, savedItems, allTags,
          showTagModal, currentEditingItem, pendingImportWords,
          showImportModal, showNotebook, singles, batches, clock, lastOp>>

Init ==
  /\ apiKey \in BOOLEAN
  /\ language = NoLanguage
  /\ query = ""
  /\ result = NoResult
  /\ loading = FALSE
  /\ savedItems = <<>>
  /\ allTags = InitialTags
  /\ showTagModal = FALSE
  /\ currentEditingItem = NoItem
  /\ pendingImportWords = <<>>
  /\ showImportModal = FALSE
  /\ showNotebook = FALSE
  /\ singles = <<>>
  /\ batches = <<>>
  /\ clock = 0
  /\ lastOp = NoOp
  /\ importModal = Unmounted

\* ----------------------------------------------------------------- screen
\* The main page is rendered once a language is chosen.  The tag dialog and
\* the import dialog (fixed inset-0, z-[60]) and the notebook (fixed inset-0,
\* z-40) cover it, so its controls are reachable only when none is open.
MainPage ==
  /\ language # NoLanguage
  /\ ~showTagModal
  /\ ~showImportModal
  /\ ~showNotebook

\* ------------------------------------------------------------ onboarding
\* Onboarding onSelectLanguage={setLanguage}; rendered while language is null
SelectLanguage ==
  /\ language = NoLanguage
  /\ \E l \in Languages : language' = l
  /\ UNCHANGED <<importModal, apiKey, query, result, loading, savedItems, allTags,
                 showTagModal, currentEditingItem, pendingImportWords,
                 showImportModal, showNotebook, singles, batches, clock, lastOp>>

\* ---------------------------------------------------------- single lookup
\* search input onChange: setQuery(e.target.value)
SetQuery ==
  /\ MainPage
  /\ \E t \in TypedTexts : query' = t
  /\ UNCHANGED <<importModal, apiKey, language, result, loading, savedItems, allTags,
                 showTagModal, currentEditingItem, pendingImportWords,
                 showImportModal, showNotebook, singles, batches, clock, lastOp>>

\* the same, for any text
SetQueryAny ==
  /\ MainPage
  /\ \E t \in LookupTexts : query' = t
  /\ UNCHANGED <<importModal, apiKey, language, result, loading, savedItems, allTags,
                 showTagModal, currentEditingItem, pendingImportWords,
                 showImportModal, showNotebook, singles, batches, clock, lastOp>>

\* the same, for the words that fill the notebook
SetQueryStore ==
  /\ MainPage
  /\ \E t \in StoreTexts : query' = t
  /\ UNCHANGED <<importModal, apiKey, language, result, loading, savedItems, allTags,
                 showTagModal, currentEditingItem, pendingImportWords,
                 showImportModal, showNotebook, singles, batches, clock, lastOp>>

\* performSearch up to its await.  Without an API key callGeminiAPI throws
\* before it awaits anything, so the catch and finally blocks run in the
\* microtasks of the same event: the handler ends with the fallback shown.
\* The field newer of a suspended call is history: a lookup was started
\* after it.
PerformSearch(text) ==
  /\ language # NoLanguage
  /\ query' = text
  /\ showNotebook' = FALSE
  /\ IF apiKey
     THEN /\ loading' = TRUE
          /\ result' = NoResult
          /\ singles' = Append([j \in 1..Len(singles) |->
                                  [singles[j] EXCEPT !.newer = TRUE]],
                               [text |-> text, lang |-> language,
                                newer |-> FALSE])
     ELSE /\ loading' = FALSE
          /\ result' = FallbackData(text, language = "zh")
          /\ singles' = singles
  /\ UNCHANGED <<importModal, apiKey, language, savedItems, allTags, showTagModal,
                 currentEditingItem, pendingImportWords, showImportModal,
                 batches, clock, lastOp>>

\* form onSubmit
HandleSearchSubmit ==
  /\ MainPage
  /\ Len(singles) + Len(batches) < MaxInFlight
  /\ IF Trim(query) = "" THEN UNCHANGED vars ELSE PerformSearch(query)

\* form onSubmit while requests may be in flight
HandleSearchSubmitOverlap ==
  /\ MainPage
  /\ Len(singles) + Len(batches) < MaxOverlap
  /\ IF Trim(query) = "" THEN UNCHANGED vars ELSE PerformSearch(query)

\* ResultCard onSelectWord={performSearch}: a click on a synonym or antonym
SelectWord ==
  /\ MainPage
  /\ result # NoResult
  /\ Len(singles) + Len(batches) < MaxInFlight
  /\ \E word \in RelatedWords(result) : PerformSearch(word)

\* the auto-correct branch leaves the data as it came
WithoutOriginalTypo(data, text) == data

\* data.originalTypo = text
WithOriginalTypo(data, text) ==
  [typoDetected |-> data.typoDetected, correctedQuery |-> data.correctedQuery,
   payload |-> data.payload, originalTypo |-> text]

\* performSearch after its await, the lookup having returned data
SearchResolved ==
  \E i \in 1..Len(singles) : \E data \in ApiResponses(singles[i].text) :
    /\ IF data.typoDetected /\ data.correctedQuery # ""
       THEN /\ query' = data.correctedQuery
            /\ result' = WithOriginalTypo(data, singles[i].text)
       ELSE /\ query' = query
            /\ result' = data
    /\ loading' = FALSE
    /\ singles' = RemoveAt(singles, i)
    /\ UNCHANGED <<importModal, apiKey, language, savedItems, allTags, showTagModal,
                   currentEditingItem, pendingImportWords, showImportModal,
                   showNotebook, batches, clock, lastOp>>

\* performSearch after its await, the lookup having thrown
SearchFailed ==
  \E i \in 1..Len(singles) :
    /\ result' = FallbackData(singles[i].text, singles[i].lang = "zh")
    /\ loading' = FALSE
    /\ singles' = RemoveAt(singles, i)
    /\ UNCHANGED <<importModal, apiKey, language, query, savedItems, allTags, showTagModal,
                   currentEditingItem, pendingImportWords, showImportModal,
                   showNotebook, batches, clock, lastOp>>

\* ------------------------------------------------------------- tag dialog
\* openSaveModal, the save button of the ResultCard (rendered while result)
OpenSaveModal ==
  /\ MainPage
  /\ result # NoResult
  /\ currentEditingItem' =
       [word |-> query,
        tags |-> IF FindExact(savedItems, query) > 0
                 THEN savedItems[FindExact(savedItems, query)].tags
                 ELSE <<>>]
  /\ showTagModal' = TRUE
  /\ UNCHANGED <<importModal, apiKey, language, query, result, loading, savedItems, allTags,
                 pendingImportWords, showImportModal, showNotebook, singles,
                 batches, clock, lastOp>>

\* a close button that only hides the dialog
HideTagModal ==
  /\ language # NoLanguage
  /\ showTagModal
  /\ showTagModal' = FALSE
  /\ lastOp' = IF Len(pendingImportWords) > 0
               THEN [op |-> "cancel", words |-> pendingImportWords]
               ELSE lastOp
  /\ UNCHANGED <<importModal, apiKey, language, query, result, loading, savedItems, allTags,
                 currentEditingItem, pendingImportWords, showImportModal,
                 showNotebook, singles, batches, clock>>

\* TagModal onClose; lastOp records the import list the close drops
CloseTagModal ==
  /\ language # NoLanguage
  /\ showTagModal
  /\ showTagModal' = FALSE
  /\ pendingImportWords' = <<>>
  /\ currentEditingItem' = NoItem
  /\ lastOp' = IF Len(pendingImportWords) > 0
               THEN [op |-> "cancel", words |-> pendingImportWords]
               ELSE lastOp
  /\ UNCHANGED <<importModal, apiKey, language, query, result, loading, savedItems, allTags,
                 showImportModal, showNotebook, singles, batches, clock>>

\* handleRemoveItem, currentEditingItem being item
RemoveItem(item) ==
  /\ savedItems' = RemoveWord(savedItems, item.word)
  /\ showTagModal' = FALSE
  /\ lastOp' = [op |-> "remove", word |-> item.word, lenBefore |-> Len(savedItems)]
  /\ UNCHANGED <<importModal, apiKey, language, query, result, loading, allTags,
                 currentEditingItem, pendingImportWords, showImportModal,
                 showNotebook, singles, batches, clock>>

\* handleRemoveItem; the button is rendered while initialTags is not empty
HandleRemoveItem ==
  /\ language # NoLanguage
  /\ showTagModal
  /\ currentEditingItem # NoItem
  /\ Len(currentEditingItem.tags) > 0
  /\ RemoveItem(currentEditingItem)

\* handleRemoveItem applied to any word, stored or not, as a caller of the
\* store may apply it
RemoveAnyWord ==
  /\ language # NoLanguage
  /\ \E w \in StoreWords : RemoveItem([word |-> w])

\* TagModal.handleCreate and handleCreateTag: the new tag joins the catalog
HandleCreateTag ==
  /\ language # NoLanguage
  /\ showTagModal
  /\ \E newTagInput \in NewTagInputs :
       allTags' = IF Trim(newTagInput) # "" /\ ~Includes(allTags, Trim(newTagInput))
                  THEN WithNewTag(allTags, Trim(newTagInput))
                  ELSE allTags
  /\ UNCHANGED <<importModal, apiKey, language, query, result, loading, savedItems,
                 showTagModal, currentEditingItem, pendingImportWords,
                 showImportModal, showNotebook, singles, batches, clock, lastOp>>

\* ----------------------------------------------------------- import dialog
\* header button "Import Words"
OpenImportModal ==
  /\ MainPage
  /\ showImportModal' = TRUE
  /\ importModal' = FreshModal
  /\ UNCHANGED <<apiKey, language, query, result, loading, savedItems, allTags,
                 showTagModal, currentEditingItem, pendingImportWords,
                 showNotebook, singles, batches, clock, lastOp>>

\* handleBatchImport(words), called by ImportModal.confirmImport
HandleBatchImport(words) ==
  /\ language # NoLanguage
  /\ showImportModal
  /\ pendingImportWords' = words
  /\ showImportModal' = FALSE
  /\ importModal' = Unmounted
  /\ currentEditingItem' = NoItem
  /\ showTagModal' = TRUE
  /\ UNCHANGED <<apiKey, language, query, result, loading, savedItems, allTags,
                 showNotebook, singles, batches, clock, lastOp>>

ConfirmImport == \E words \in ImportLists : HandleBatchImport(words)

\* the same, the user importing a list only while no import is in flight
ConfirmImportIdle ==
  /\ batches = <<>>
  /\ ConfirmImport

ConfirmImportBatch == \E words \in BatchLists : HandleBatchImport(words)

ConfirmImportLong == HandleBatchImport(LongList)

\* ImportModal.confirmImport in text mode; the button is disabled while the
\* text is blank
ConfirmImportText ==
  \E inputText \in InputTexts :
    /\ Join(TrimChars(inputText)) # ""
    /\ HandleBatchImport(TextWords(inputText))

\* ------------------------------------------------ image tab of ImportModal
\* the variables of the application, which the dialog's own handlers leave
AppUnchanged ==
  UNCHANGED <<apiKey, language, query, result, loading, savedItems, allTags,
              showTagModal, currentEditingItem, pendingImportWords,
              showImportModal, showNotebook, singles, batches, clock, lastOp>>

\* handleFileSelect, from reader.onload to the await of the scan; the upload
\* area is rendered while no image is selected.  Without an API key
\* callGeminiAPI throws before it awaits, and catch and finally run at once.
HandleFileSelect ==
  /\ importModal.mounted
  /\ importModal.selectedImage = NoImage
  /\ importModal.scans < MaxInFlight
  /\ \E image \in Images :
       importModal' =
         [importModal EXCEPT !.selectedImage = image,
                             !.scanning = apiKey,
                             !.scannedWords = <<>>,
                             !.selectedScannedWords = <<>>,
                             !.scans = IF apiKey THEN @ + 1 ELSE @]
  /\ AppUnchanged

\* reader.onload after its await, the scan having returned
ScanResolved ==
  /\ importModal.mounted
  /\ importModal.scans > 0
  /\ \E words \in OcrResults :
       importModal' =
         IF words.array
         THEN [importModal EXCEPT !.scannedWords = words.words,
                                  !.selectedScannedWords = words.words,
                                  !.scanning = FALSE,
                                  !.scans = @ - 1]
         ELSE [importModal EXCEPT !.scannedWords = <<"Error parsing text">>,
                                  !.scanning = FALSE,
                                  !.scans = @ - 1]
  /\ AppUnchanged

\* reader.onload after its await, the scan having thrown
ScanFailed ==
  /\ importModal.mounted
  /\ importModal.scans > 0
  /\ importModal' = [importModal EXCEPT !.scannedWords = <<>>,
                                        !.scanning = FALSE,
                                        !.scans = @ - 1]
  /\ AppUnchanged

\* the list of scanned words is rendered under the image once a scan ended
WordListShown ==
  /\ importModal.mounted
  /\ importModal.selectedImage # NoImage
  /\ ~importModal.scanning
  /\ Len(importModal.scannedWords) > 0

\* toggleWordSelection(word), a click on a word of the list
ToggleWordSelection ==
  /\ WordListShown
  /\ \E k \in 1..Len(importModal.scannedWords) :
       LET word == importModal.scannedWords[k]
           selected == importModal.selectedScannedWords
       IN importModal' =
            [importModal EXCEPT !.selectedScannedWords =
               IF Includes(selected, word)
               THEN SelectSeq(selected, LAMBDA w : w # word)
               ELSE Append(selected, word)]
  /\ AppUnchanged

\* toggleSelectAll
ToggleSelectAll ==
  /\ WordListShown
  /\ importModal' =
       [importModal EXCEPT !.selectedScannedWords =
          IF Len(importModal.selectedScannedWords) = Len(importModal.scannedWords)
          THEN <<>>
          ELSE importModal.scannedWords]
  /\ AppUnchanged

\* the bin button over the image
DiscardImage ==
  /\ importModal.mounted
  /\ importModal.selectedImage # NoImage
  /\ importModal' = [importModal EXCEPT !.selectedImage = NoImage,
                                        !.scannedWords = <<>>]
  /\ AppUnchanged

\* ImportModal.confirmImport in image mode; the button at the foot of the
\* dialog is disabled while no scanned word is selected
ConfirmImportImage ==
  /\ importModal.mounted
  /\ Len(importModal.selectedScannedWords) > 0
  /\ HandleBatchImport(importModal.selectedScannedWords)

\* ImportModal onClose
CloseImportModal ==
  /\ language # NoLanguage
  /\ showImportModal
  /\ showImportModal' = FALSE
  /\ importModal' = Unmounted
  /\ UNCHANGED <<apiKey, language, query, result, loading, savedItems, allTags,
                 showTagModal, currentEditingItem, pendingImportWords,
                 showNotebook, singles, batches, clock, lastOp>>

\* ---------------------------------------------------------------- notebook
\* header button: setShowNotebook(true)
OpenNotebook ==
  /\ MainPage
  /\ showNotebook' = TRUE
  /\ UNCHANGED <<importModal, apiKey, language, query, result, loading, savedItems, allTags,
                 showTagModal, currentEditingItem, pendingImportWords,
                 showImportModal, singles, batches, clock, lastOp>>

\* Notebook onClose
CloseNotebook ==
  /\ language # NoLanguage
  /\ showNotebook
  /\ ~showTagModal
  /\ ~showImportModal
  /\ showNotebook' = FALSE
  /\ UNCHANGED <<importModal, apiKey, language, query, result, loading, savedItems, allTags,
                 showTagModal, currentEditingItem, pendingImportWords,
                 showImportModal, singles, batches, clock, lastOp>>

\* ------------------------------------------------------------ batch import
\* one element of importPromises: the async callback of the map, by its state
NewTask(w) == [w |-> w, st |-> "pending"]

\* the callback returned {word: w, data, tags: tagsToSave, date: new Date()}
ResolvedTask(w, data, tags, now) ==
  [w |-> w, st |-> "ok",
   item |-> [word |-> w, data |-> data, tags |-> tags, date |-> now]]

\* a callback with no catch around its lookup: its promise rejects
RejectedTask(w) == [w |-> w, st |-> "rejected"]

\* the callback caught the failure of its lookup and returned null
FailedTask(w) == [w |-> w, st |-> "fail"]

\* a combinator that fulfils as soon as one promise has settled
PromiseRace(tasks) ==
  IF \E i \in 1..Len(tasks) : tasks[i].st # "pending" THEN "fulfilled"
  ELSE "pending"

\* Promise.all(importPromises): rejects as soon as one promise rejects,
\* fulfils when all have fulfilled
PromiseAll(tasks) ==
  IF \E i \in 1..Len(tasks) : tasks[i].st = "rejected" THEN "rejected"
  ELSE IF \E i \in 1..Len(tasks) : tasks[i].st = "pending" THEN "pending"
  ELSE "fulfilled"

\* a filter that gives up the whole batch when one result is null
ValidItemsAllOrNothing(tasks) ==
  IF \E i \in 1..Len(tasks) : tasks[i].st # "ok" THEN <<>>
  ELSE [i \in 1..Len(tasks) |-> tasks[i].item]

\* newItemsResults.filter(i => i !== null)
ValidItems(tasks) ==
  LET ok == SelectSeq(tasks, LAMBDA t : t.st = "ok")
  IN [i \in 1..Len(ok) |-> ok[i].item]

\* the same filter, returning the items in the order their lookups completed
UniqueNewItemsByArrival(b) ==
  SortSeq(SelectSeq(ValidItems(b.tasks), LAMBDA it : ~HasWordCI(b.saved, it.word)),
          LAMBDA x, y : x.date < y.date)

\* validItems.filter(newItem => !savedItems.find(...)), savedItems being the
\* array of the render the handler was created in
UniqueNewItems(b) ==
  SelectSeq(ValidItems(b.tasks), LAMBDA it : ~HasWordCI(b.saved, it.word))

\* handleSaveTags from "await Promise.all" on, for the batch b; withB and
\* withoutB are the in-flight batches if b stays suspended and if it ends
AwaitAll(b, withB, withoutB, loadingNow) ==
  IF PromiseAll(b.tasks) = "fulfilled"
  THEN /\ savedItems' = savedItems \o UniqueNewItems(b)
       /\ pendingImportWords' = <<>>
       /\ loading' = FALSE
       /\ showNotebook' = TRUE
       /\ batches' = withoutB
       /\ lastOp' = [op |-> "commit", words |-> b.words, tasks |-> b.tasks,
                     selected |-> b.selected, snapshot |-> b.saved,
                     lenBefore |-> Len(savedItems)]
  ELSE /\ batches' = IF PromiseAll(b.tasks) = "pending" THEN withB ELSE withoutB
       /\ loading' = loadingNow
       /\ UNCHANGED <<savedItems, pendingImportWords, showNotebook, lastOp>>

\* a re-save that stores the whole new item
OverwriteExisting(items, existingIndex, newItem) ==
  [items EXCEPT ![existingIndex] = newItem]

\* newItems[existingIndex] = {...newItems[existingIndex], tags: selectedTags}
UpdateExisting(items, existingIndex, newItem) ==
  [items EXCEPT ![existingIndex].tags = newItem.tags]

\* the selected tags as they are, with no default
TagsAsSelected(selectedTags) == selectedTags

\* tagsToSave = selectedTags.length > 0 ? selectedTags : ['Imported']
TagsToSave(selectedTags) ==
  IF Len(selectedTags) > 0 THEN selectedTags ELSE <<DefaultImportTag>>

\* handleSaveTags(selectedTags), up to its await in batch import mode
SaveTags(selectedTags) ==
  IF Len(pendingImportWords) > 0 /\ language # NoLanguage
  THEN LET tagsToSave == TagsToSave(selectedTags)
           slice == Slice(pendingImportWords, ConcurrencyCap)
           b == [saved |-> savedItems, words |-> pendingImportWords,
                 selected |-> selectedTags, tags |-> tagsToSave,
                 tasks |-> [i \in 1..Len(slice) |->
                              IF apiKey THEN NewTask(slice[i])
                              ELSE FailedTask(slice[i])]]
       IN /\ showTagModal' = FALSE
          /\ AwaitAll(b, Append(batches, b), batches, TRUE)
          /\ UNCHANGED <<importModal, apiKey, language, query, result, allTags,
                         currentEditingItem, showImportModal, singles, clock>>
  ELSE /\ IF currentEditingItem # NoItem /\ result # NoResult
          THEN LET existingIndex == FindExact(savedItems, currentEditingItem.word)
                   newItem == [word |-> currentEditingItem.word, data |-> result,
                               tags |-> selectedTags, date |-> clock]
               IN /\ savedItems' = IF existingIndex > 0
                                   THEN UpdateExisting(savedItems, existingIndex, newItem)
                                   ELSE Append(savedItems, newItem)
                  /\ clock' = clock + 1
                  /\ lastOp' = [op |-> "save",
                                word |-> currentEditingItem.word,
                                tags |-> selectedTags,
                                matched |-> HasWordCI(savedItems, currentEditingItem.word),
                                lenBefore |-> Len(savedItems)]
          ELSE UNCHANGED <<savedItems, clock, lastOp>>
       /\ showTagModal' = FALSE
       /\ UNCHANGED <<importModal, apiKey, language, query, result, loading, allTags,
                      currentEditingItem, pendingImportWords, showImportModal,
                      showNotebook, singles, batches>>

\* the selections the dialog offers: tags of the catalog
SelectableTags ==
  {c \in TagChoices \cup {<<Trim(t)>> : t \in NewTagInputs} :
     \A i \in 1..Len(c) : Includes(allTags, c[i])}

\* TagModal onSave={handleSaveTags}
HandleSaveTags ==
  /\ language # NoLanguage
  /\ showTagModal
  /\ Len(pendingImportWords) > 0 => Len(singles) + Len(batches) < MaxInFlight
  /\ Len(pendingImportWords) = 0 => clock < MaxDate
  /\ \E selectedTags \in SelectableTags : SaveTags(selectedTags)

\* the same, while requests may be in flight
HandleSaveTagsOverlap ==
  /\ language # NoLanguage
  /\ showTagModal
  /\ Len(pendingImportWords) > 0 => Len(singles) + Len(batches) < MaxOverlap
  /\ Len(pendingImportWords) = 0 => clock < MaxDate
  /\ \E selectedTags \in TagChoices : SaveTags(selectedTags)

\* the same, with no import in flight
HandleSaveTagsAlone ==
  /\ language # NoLanguage
  /\ showTagModal
  /\ batches = <<>>
  /\ \E selectedTags \in TagChoices : SaveTags(selectedTags)

\* the same, for an import into an empty notebook with no import in flight
HandleSaveTagsLong ==
  /\ language # NoLanguage
  /\ showTagModal
  /\ savedItems = <<>>
  /\ batches = <<>>
  /\ \E selectedTags \in TagChoices : SaveTags(selectedTags)

\* the lookup of word i of batch bi returned data: the callback builds the item
ResolveLookup(bi, i) ==
  \E data \in ApiResponses(batches[bi].tasks[i].w) :
    LET b == batches[bi]
        nb == [b EXCEPT !.tasks[i] = ResolvedTask(b.tasks[i].w, data, b.tags, clock)]
    IN /\ b.tasks[i].st = "pending"
       /\ AwaitAll(nb, [batches EXCEPT ![bi] = nb], RemoveAt(batches, bi), loading)
       /\ clock' = clock + 1
       /\ UNCHANGED <<importModal, apiKey, language, query, result, allTags, showTagModal,
                      currentEditingItem, showImportModal, singles>>

\* the lookup of word i of batch bi threw: the callback returns null
FailLookup(bi, i) ==
  LET b == batches[bi]
      nb == [b EXCEPT !.tasks[i] = FailedTask(b.tasks[i].w)]
  IN /\ b.tasks[i].st = "pending"
     /\ AwaitAll(nb, [batches EXCEPT ![bi] = nb], RemoveAt(batches, bi), loading)
     /\ UNCHANGED <<importModal, apiKey, language, query, result, allTags, showTagModal,
                    currentEditingItem, showImportModal, singles, clock>>

BatchLookupResolved ==
  /\ clock < MaxDate
  /\ \E bi \in 1..Len(batches) : \E i \in 1..Len(batches[bi].tasks) :
       ResolveLookup(bi, i)

BatchLookupFailed ==
  \E bi \in 1..Len(batches) : \E i \in 1..Len(batches[bi].tasks) :
    FailLookup(bi, i)

\* the first lookup still in flight of batch b
FirstPending(b) ==
  CHOOSE i \in 1..Len(b.tasks) :
    /\ b.tasks[i].st = "pending"
    /\ \A j \in 1..(i - 1) : b.tasks[j].st # "pending"

\* the collaborator answering the lookups of a batch in the order of the requests
LongLookupResolved ==
  \E bi \in 1..Len(batches) : ResolveLookup(bi, FirstPending(batches[bi]))

LongLookupFailed ==
  \E bi \in 1..Len(batches) : FailLookup(bi, FirstPending(batches[bi]))

\* ---------------------------------------------------------- specifications
Next ==
  \/ SelectLanguage
  \/ SetQuery
  \/ HandleSearchSubmit
  \/ SearchResolved
  \/ SearchFailed
  \/ OpenSaveModal
  \/ CloseTagModal
  \/ HandleRemoveItem
  \/ OpenImportModal
  \/ ConfirmImport
  \/ CloseImportModal
  \/ OpenNotebook
  \/ CloseNotebook
  \/ HandleSaveTags
  \/ BatchLookupResolved
  \/ BatchLookupFailed

Spec == Init /\ [][Next]_vars

\* the import path alone, with lists that repeat a word
NextBatch ==
  \/ SelectLanguage
  \/ OpenImportModal
  \/ ConfirmImportBatch
  \/ CloseImportModal
  \/ CloseTagModal
  \/ CloseNotebook
  \/ HandleSaveTagsAlone
  \/ BatchLookupResolved
  \/ BatchLookupFailed

SpecBatch == Init /\ [][NextBatch]_vars

\* the import path alone, with a list longer than the concurrency cap
NextLong ==
  \/ SelectLanguage
  \/ OpenImportModal
  \/ ConfirmImportLong
  \/ CloseNotebook
  \/ HandleSaveTagsLong
  \/ LongLookupResolved
  \/ LongLookupFailed

SpecLong == Init /\ [][NextLong]_vars

\* the single lookup alone, with any text typed and related words clicked
NextSearch ==
  \/ SelectLanguage
  \/ SetQueryAny
  \/ HandleSearchSubmit
  \/ SelectWord
  \/ SearchResolved
  \/ SearchFailed

SpecSearch == Init /\ [][NextSearch]_vars

\* the notebook store: single saves with tags of a catalog that grows, and
\* removals
NextStore ==
  \/ SelectLanguage
  \/ SetQueryStore
  \/ HandleSearchSubmit
  \/ SearchResolved
  \/ SearchFailed
  \/ OpenSaveModal
  \/ HandleCreateTag
  \/ HandleSaveTags
  \/ HandleRemoveItem
  \/ RemoveAnyWord
  \/ CloseTagModal

SpecStore == Init /\ [][NextStore]_vars

\* every path that starts a lookup
NextLookup ==
  \/ SelectLanguage
  \/ SetQueryAny
  \/ HandleSearchSubmit
  \/ SelectWord
  \/ SearchResolved
  \/ SearchFailed
  \/ OpenImportModal
  \/ ConfirmImportText
  \/ HandleFileSelect
  \/ ScanResolved
  \/ ScanFailed
  \/ ConfirmImportImage
  \/ CloseImportModal
  \/ CloseTagModal
  \/ CloseNotebook
  \/ HandleSaveTagsLong
  \/ BatchLookupResolved
  \/ BatchLookupFailed

SpecLookup == Init /\ [][NextLookup]_vars

\* lookups and imports that overlap
NextOverlap ==
  \/ SelectLanguage
  \/ SetQuery
  \/ HandleSearchSubmitOverlap
  \/ SearchResolved
  \/ SearchFailed
  \/ OpenSaveModal
  \/ CloseTagModal
  \/ OpenImportModal
  \/ ConfirmImportIdle
  \/ CloseNotebook
  \/ HandleSaveTagsOverlap
  \/ BatchLookupResolved
  \/ BatchLookupFailed

SpecOverlap == Init /\ [][NextOverlap]_vars

\* the image tab of the import dialog
NextScan ==
  \/ SelectLanguage
  \/ OpenImportModal
  \/ CloseImportModal
  \/ HandleFileSelect
  \/ ScanResolved
  \/ ScanFailed
  \/ ToggleWordSelection
  \/ ToggleSelectAll
  \/ DiscardImage
  \/ ConfirmImportImage
  \/ CloseTagModal

SpecScan == Init /\ [][NextScan]_vars

\* ------------------------------------------------------------- properties
\* the store as it was before the last operation that wrote it, for a commit
Before == SubSeq(savedItems, 1, lastOp.lenBefore)

\* the entries the last batch commit appended
Added == SubSeq(savedItems, lastOp.lenBefore + 1, Len(savedItems))

\* the words of a list of entries, and of a list of words, up to case
EntryWordsCI(items) == {ToLower(items[i].word) : i \in 1..Len(items)}

WordsCI(words) == {ToLower(words[i]) : i \in 1..Len(words)}

\* lookups of batch b that have not settled
InFlight(b) == Len(SelectSeq(b.tasks, LAMBDA t : t.st = "pending"))

\* what a stored entry keeps for life: everything but its tags
Core(e) == [word |-> e.word, data |-> e.data, date |-> e.date]

\* C1: no two saved entries have words that are equal up to case.
C1_NoDuplicateWords ==
  \A i, j \in 1..Len(savedItems) :
    i # j => ToLower(savedItems[i].word) # ToLower(savedItems[j].word)

\* C2: the entries a batch import adds contain no two entries for the same
\* word up to case, even when the submitted list repeats a word.
C2_BatchAddsNoRepeat ==
  lastOp.op = "commit" =>
    \A i, j \in 1..Len(Added) :
      i # j => ToLower(Added[i].word) # ToLower(Added[j].word)

\* C3: the entries a batch import adds are the words that resolved minus
\* the words already present, for a list of any length; so when no lookup
\* of the batch failed, every submitted word that was not present is added.
C3_AddsResolvedMinusPresent ==
  (/\ lastOp.op = "commit"
   /\ \A i \in 1..Len(lastOp.tasks) : lastOp.tasks[i].st = "ok")
  => EntryWordsCI(Added) = WordsCI(lastOp.words) \ EntryWordsCI(lastOp.snapshot)

\* C4: words beyond the concurrency cap are queued, not discarded: when a
\* batch import has completed, a lookup was issued for every submitted word.
C4_EveryWordLookedUp ==
  lastOp.op = "commit" => Len(lastOp.tasks) = Len(lastOp.words)

\* C5: a batch import never has more than 10 lookups in flight at once,
\* whatever the length of the list.
C5_AtMostCapInFlight ==
  \A bi \in 1..Len(batches) : InFlight(batches[bi]) <= ConcurrencyCap

C5_Witness ==
  \E bi \in 1..Len(batches) :
    /\ Len(batches[bi].words) > ConcurrencyCap
    /\ InFlight(batches[bi]) = ConcurrencyCap

\* C6: a single save of a word that matches a stored entry up to case adds
\* no entry, and the matching entry carries the tags just saved.
C6_ResaveReplacesTags ==
  (lastOp.op = "save" /\ lastOp.matched) =>
    /\ Len(savedItems) = lastOp.lenBefore
    /\ \A i \in 1..Len(savedItems) :
         ToLower(savedItems[i].word) = ToLower(lastOp.word)
           => savedItems[i].tags = lastOp.tags

\* C7: no operation changes the word, the payload or the creation date of a
\* stored entry: a removal leaves the entries of other words as they are,
\* in order, and every other step keeps each entry in place with the same
\* word, payload and date.
C7_StoredEntryKeepsCore ==
  [][IF Len(savedItems') < Len(savedItems)
     THEN /\ lastOp'.op = "remove"
          /\ savedItems' = SelectSeq(savedItems, LAMBDA e : e.word # lastOp'.word)
     ELSE /\ Len(savedItems') >= Len(savedItems)
          /\ \A i \in 1..Len(savedItems) :
               Core(savedItems'[i]) = Core(savedItems[i])]_vars

\* a stored entry was saved again while another payload was displayed, and
\* kept its own
C7_Witness ==
  /\ lastOp.op = "save"
  /\ Len(savedItems) = lastOp.lenBefore
  /\ result # NoResult
  /\ \E i \in 1..Len(savedItems) :
       /\ savedItems[i].word = lastOp.word
       /\ savedItems[i].tags = lastOp.tags
       /\ savedItems[i].data # result
       /\ savedItems[i].date + 1 < clock

\* C8: the entries a batch import adds never include a word that is already
\* in the store, up to case.
C8_BatchAddsNothingPresent ==
  lastOp.op = "commit" =>
    \A i \in 1..Len(Added) : ~HasWordCI(Before, Added[i].word)

\* C9: a failed lookup changes nothing for the other words of the batch:
\* every word that resolved and was not in the store when the import was
\* confirmed is imported, with the entry its lookup built, and nothing else.
C9_FailureIsolation ==
  lastOp.op = "commit" =>
    /\ \A i \in 1..Len(lastOp.tasks) :
         (/\ lastOp.tasks[i].st = "ok"
          /\ ~HasWordCI(lastOp.snapshot, lastOp.tasks[i].w))
         => \E k \in 1..Len(Added) : Added[k] = lastOp.tasks[i].item
    /\ \A k \in 1..Len(Added) :
         \E i \in 1..Len(lastOp.tasks) :
           /\ lastOp.tasks[i].st = "ok"
           /\ lastOp.tasks[i].item = Added[k]

\* a batch was committed in which one lookup failed and another resolved
C9_Witness ==
  /\ lastOp.op = "commit"
  /\ \E i \in 1..Len(lastOp.tasks) : lastOp.tasks[i].st = "fail"
  /\ \E i \in 1..Len(lastOp.tasks) : lastOp.tasks[i].st = "ok"
  /\ Len(Added) > 0

\* C10: a batch import never fails as a whole: it ends in the step in which
\* its last lookup settles, whatever the outcomes, and it ends by committing:
\* the pending list is cleared, the loading flag is cleared, the notebook is
\* opened and the store is extended.
C10_BatchAlwaysCompletes ==
  /\ [](\A bi \in 1..Len(batches) : InFlight(batches[bi]) > 0)
  /\ [][Len(batches') < Len(batches) =>
         /\ lastOp'.op = "commit"
         /\ \E bi \in 1..Len(batches) : lastOp'.words = batches[bi].words
         /\ pendingImportWords' = <<>>
         /\ loading' = FALSE
         /\ showNotebook' = TRUE
         /\ Len(savedItems') >= Len(savedItems)
         /\ SubSeq(savedItems', 1, Len(savedItems)) = savedItems]_vars

\* a batch whose lookups all failed has completed
C10_Witness ==
  /\ lastOp.op = "commit"
  /\ Len(lastOp.tasks) > 1
  /\ \A i \in 1..Len(lastOp.tasks) : lastOp.tasks[i].st = "fail"
  /\ apiKey
  /\ pendingImportWords = <<>>
  /\ ~loading
  /\ showNotebook

\* C11: a batch import does not write the store while one of its lookups is
\* in flight: a step that starts a batch or settles a lookup of a batch that
\* stays suspended leaves the store as it is, and the step that ends a batch
\* is its commit, with every lookup of the batch settled.
C11_StoreWrittenAfterAllSettle ==
  [][/\ (batches' # batches /\ Len(batches') >= Len(batches))
          => savedItems' = savedItems
     /\ Len(batches') < Len(batches)
          => /\ lastOp'.op = "commit"
             /\ \A i \in 1..Len(lastOp'.tasks) : lastOp'.tasks[i].st # "pending"]_vars

\* a lookup of a batch has resolved, another is in flight, and the entry it
\* built is not in the store
C11_Witness ==
  \E bi \in 1..Len(batches) :
    /\ InFlight(batches[bi]) > 0
    /\ \E i \in 1..Len(batches[bi].tasks) :
         /\ batches[bi].tasks[i].st = "ok"
         /\ ~HasWordCI(savedItems, batches[bi].tasks[i].w)

Rendered(text, lang) ==
  {FallbackData(text, lang = "zh")}
  \cup {IF d.typoDetected /\ d.correctedQuery # ""
        THEN WithOriginalTypo(d, text) ELSE d : d \in ApiResponses(text)}

\* C13: every single lookup ends with a result displayed, the document the
\* collaborator returned or the placeholder built for its query, and with
\* the loading flag cleared: when a lookup in flight ends, and when a lookup
\* without an API key runs to its end in the event that started it.
C13_LookupEndsRenderable ==
  [][/\ Len(singles') < Len(singles)
          => /\ loading' = FALSE
             /\ result' # NoResult
             /\ \E i \in 1..Len(singles) :
                  /\ singles' = RemoveAt(singles, i)
                  /\ result' \in Rendered(singles[i].text, singles[i].lang)
     /\ (~apiKey /\ result' # result)
          => /\ loading' = FALSE
             /\ result' # NoResult
             /\ singles' = <<>>
             /\ result' = FallbackData(query', language = "zh")]_vars

\* a lookup that failed upstream has ended with the placeholder displayed
C13_Witness ==
  /\ apiKey
  /\ singles = <<>>
  /\ ~loading
  /\ result # NoResult
  /\ result = FallbackData(query, language = "zh")

\* C14: no lookup request is issued for a query that is empty after
\* trimming, by the search form, a related word, or an import.
C14_NoEmptyLookup ==
  /\ \A i \in 1..Len(singles) : Trim(singles[i].text) # ""
  /\ \A bi \in 1..Len(batches) : \A i \in 1..Len(batches[bi].tasks) :
       Trim(batches[bi].tasks[i].w) # ""

C16_BatchTags ==
  lastOp.op = "commit" =>
    \A k \in 1..Len(Added) :
      Added[k].tags = IF Len(lastOp.selected) > 0 THEN lastOp.selected
                      ELSE <<"Imported">>

\* a batch confirmed with no tag selected has added an entry tagged Imported
C16_Witness ==
  /\ lastOp.op = "commit"
  /\ lastOp.selected = <<>>
  /\ Len(Added) > 0
  /\ Added[1].tags = <<"Imported">>

\* C17: after a removal the notebook, filtered by All, holds no entry for
\* the removed word.
C17_RemovedWordGone ==
  lastOp.op = "remove" =>
    \A i \in 1..Len(FilteredItems(savedItems, "All")) :
      FilteredItems(savedItems, "All")[i].word # lastOp.word

\* an entry has been removed
C17_Witness ==
  /\ lastOp.op = "remove"
  /\ Len(savedItems) < lastOp.lenBefore

\* C18: the stored entry of the current word is identified up to case: the
\* save dialog opens with the tags of the entry whose word equals the query
\* up to case, and after a removal no entry equal to the removed word up to
\* case is left.
C18_IdentityIgnoresCase ==
  /\ [](lastOp.op = "remove" => ~HasWordCI(savedItems, lastOp.word))
  /\ [][(~showTagModal /\ showTagModal' /\ currentEditingItem' # NoItem)
          => \A i \in 1..Len(savedItems) :
               ToLower(savedItems[i].word) = ToLower(currentEditingItem'.word)
                 => currentEditingItem'.tags = savedItems[i].tags]_vars

\* C19: a removal of a word that is not in the notebook leaves the entries,
\* their order and their tags as they are.
C19_RemoveAbsentKeepsStore ==
  [][(/\ lastOp' # lastOp
      /\ lastOp'.op = "remove"
      /\ \A i \in 1..Len(savedItems) : savedItems[i].word # lastOp'.word)
       => savedItems' = savedItems]_vars

\* a word that is not stored was removed from a notebook that holds entries
C19_Witness ==
  /\ lastOp.op = "remove"
  /\ Len(savedItems) > 0
  /\ Len(savedItems) = lastOp.lenBefore
  /\ \A i \in 1..Len(savedItems) : savedItems[i].word # lastOp.word

\* C20: the filter All returns every stored entry in insertion order, and
\* the filter of a tag of the catalog returns exactly the stored entries
\* whose tags contain it, in insertion order.
C20_FilterByTag ==
  /\ FilteredItems(savedItems, "All") = savedItems
  /\ \A k \in 1..Len(allTags) :
       FilteredItems(savedItems, allTags[k]) =
         SelectSeq(savedItems,
                   LAMBDA item : \E i \in 1..Len(item.tags) : item.tags[i] = allTags[k])

\* C21: the count shown for each tag of the catalog is the number of stored
\* entries whose tags contain it, and the count shown for All is the number
\* of stored entries.
C21_TagCounts ==
  /\ GetCount(savedItems, "All") = Len(savedItems)
  /\ \A k \in 1..Len(allTags) :
       GetCount(savedItems, allTags[k]) =
         Cardinality({i \in 1..Len(savedItems) :
                        \E j \in 1..Len(savedItems[i].tags) :
                          savedItems[i].tags[j] = allTags[k]})

\* C22: the tag catalog only grows at its end: every step keeps the labels
\* it holds, in their order, whatever the step does to the notebook.
C22_CatalogAppendOnly ==
  [][/\ Len(allTags') >= Len(allTags)
     /\ SubSeq(allTags', 1, Len(allTags)) = allTags]_vars

\* the only entry of the notebook was removed and the label created in the
\* session is still in the catalog
C22_Witness ==
  /\ lastOp.op = "remove"
  /\ lastOp.lenBefore = 1
  /\ savedItems = <<>>
  /\ Len(allTags) > Len(InitialTags)
  /\ SubSeq(allTags, 1, Len(InitialTags)) = InitialTags

\* C24: a batch import checks its words against the store as it is when the
\* batch commits: the entries it appends are the resolved ones whose word is
\* not, up to case, in the store the commit finds.
C24_CheckedAtCommit ==
  lastOp.op = "commit" =>
    Added = SelectSeq(ValidItems(lastOp.tasks),
                      LAMBDA it : ~HasWordCI(Before, it.word))

\* C27: every entry a single save creates is stored under the effective
\* query of the result it holds.
C27_SavedUnderLookedUpWord ==
  (lastOp.op = "save" /\ Len(savedItems) > lastOp.lenBefore) =>
    savedItems[Len(savedItems)].word =
      savedItems[Len(savedItems)].data.correctedQuery

\* C28: every tag of a stored entry is a label of the tag catalog.
C28_StoredTagsInCatalog ==
  \A i \in 1..Len(savedItems) :
    \A j \in 1..Len(savedItems[i].tags) :
      Includes(allTags, savedItems[i].tags[j])

\* C30: closing the tag dialog over a pending import list cancels the
\* import: the step clears the list, issues no lookup and leaves the store
\* as it is; and a batch starts only from a confirmation of the dialog over
\* a pending list, so that a single save after the close starts none.
C30_CloseCancelsImport ==
  /\ [][(/\ showTagModal /\ ~showTagModal'
          /\ Len(pendingImportWords) > 0
          /\ lastOp'.op = "cancel" /\ lastOp' # lastOp)
         => /\ pendingImportWords' = <<>>
            /\ batches' = batches
            /\ singles' = singles
            /\ savedItems' = savedItems]_vars
  /\ [][Len(batches') > Len(batches)
         => showTagModal /\ Len(pendingImportWords) > 0]_vars

\* an import list was dropped by closing the dialog, nothing is in flight
\* and a result is displayed that a single save can store
C30_Witness ==
  /\ lastOp.op = "cancel"
  /\ Len(lastOp.words) > 0
  /\ pendingImportWords = <<>>
  /\ batches = <<>>
  /\ ~showTagModal
  /\ result # NoResult

\* C29: in the image tab of the import dialog the selected words are always
\* among the words of the scan of the image shown, so that a confirmation
\* imports no word of an image that was discarded.
C29_SelectedAmongScanned ==
  importModal.mounted =>
    /\ \A k \in 1..Len(importModal.selectedScannedWords) :
         Includes(importModal.scannedWords, importModal.selectedScannedWords[k])
    /\ Len(importModal.selectedScannedWords) > 0
         => importModal.selectedImage # NoImage

\* C23: a pending import list is imported at most once: no batch starts
\* over a pending list for which a batch is already in flight.
C23_PendingImportedOnce ==
  [][Len(batches') > Len(batches)
       => ~\E bi \in 1..Len(batches) :
             batches[bi].words = pendingImportWords]_vars

\* C25: when single lookups overlap, the result and the query displayed once
\* all have settled are those of the lookup started last: a lookup that
\* settles last, a later one having been started and having settled, leaves
\* the result and the query as it finds them.
C25_LastStartedWins ==
  [][(Len(singles) = 1 /\ singles[1].newer /\ singles' = <<>>)
       => result' = result /\ query' = query]_vars

\* C26: the loading flag is true while a single lookup or a batch import
\* is in flight.
C26_LoadingWhileInFlight ==
  (Len(singles) > 0 \/ Len(batches) > 0) => loading

====
